---- MODULE Spec2Model ----
(***************************************************************************)
(* A model of the mop terminal dashboard: the event dispatcher (mainLoop), *)
(* the column editor, and the markup tokenizer.                            *)
(***************************************************************************)
EXTENDS Integers, Sequences, FiniteSets, TLC

VARIABLES
    lineEditor,     \* main.go:42   NIL or the command the line editor was prompted with
    columnEditor,   \* main.go:43   NIL or "editor"
    showingHelp,    \* main.go:49
    paused,         \* main.go:50
    pc,             \* "loop" while mainLoop runs, "done" after `break loop`
    profile,        \* the session state shared by dispatcher and editors
    pumpPc,         \* keyboard pump goroutine: "poll" or "send"
    pumpEvent,      \* the event the pump is sending on keyboardQueue
    handled,        \* what the last loop iteration handled and how
    draws,          \* the screen calls made by the last loop iteration
    str,            \* markup: the string given to Tokenize
    tokens,         \* markup: the result of Tokenize
    markup,         \* markup: Foreground, Background, RightAligned
    mpc,            \* markup: "start", "tokenized", or "tags"
    idx,            \* markup: number of strings already given to IsTag
    applied,        \* markup: the strings given to IsTag so far, in order
    ret,            \* markup: what the last call of IsTag returned
    filterStocks,   \* filter: the stocks given to Filter.Apply
    filterText,     \* filter: profile.Filter
    filtered,       \* filter: what Filter.Apply returned, or that it panicked
    evaluated,      \* filter: number of calls of FilterExpression.Evaluate
    fpc,            \* filter: "start", "done"
    quotes,         \* quotes: Stocks and errors of model.Quotes
    tickers,        \* quotes: profile.Tickers
    isClosed,       \* quotes: market.IsClosed
    fetched,        \* quotes: what the last call of Fetch did
    changed         \* quotes: what the last AddTickers or RemoveTickers returned

vars == <<lineEditor, columnEditor, showingHelp, paused, pc, profile,
          pumpPc, pumpEvent, handled, draws, str, tokens, markup, mpc, idx,
          applied, ret, filterStocks, filterText, filtered, evaluated, fpc,
          quotes, tickers, isClosed, fetched, changed>>

loopVars == <<lineEditor, columnEditor, showingHelp, paused, pc, profile,
              pumpPc, pumpEvent, handled, draws>>

markupVars == <<str, tokens, markup, mpc, idx, applied, ret>>

filterVars == <<filterStocks, filterText, filtered, evaluated, fpc>>

quotesVars == <<quotes, tickers, isClosed, fetched, changed>>

-----------------------------------------------------------------------------
(* Bounds *)

\* Number of columns of the quotes table (Layout.TotalColumns()).
TotalColumns == 3

\* Longest markup input, counted in pieces (literal characters and tags).
MaxPieces == 3

-----------------------------------------------------------------------------
(* Terminal events *)

NIL == "nil"

Event(type, key, ch) == [Type |-> type, Key |-> key, Ch |-> ch]

\* Special keys: Key is set and Ch is 0.
Keys == {"KeyEsc", "KeyEnter", "KeyArrowLeft", "KeyArrowRight", "KeyTab"}

\* Character keys: Ch is set and Key is 0.  "x" stands for an unbound character.
Chars == {"q", "Q", "+", "-", "f", "F", "o", "O", "g", "G", "p", "P",
          "?", "h", "H", "x"}

KeyEvents == {Event("EventKey", k, "") : k \in Keys}
                \cup {Event("EventKey", "", c) : c \in Chars}

ResizeEvent == Event("EventResize", "", "")

\* Any other event type termbox delivers (mouse, interrupt, error).
OtherEvent == Event("EventMouse", "", "")

Events == KeyEvents \cup {ResizeEvent, OtherEvent}

NoEvent == Event("EventNone", "", "")

-----------------------------------------------------------------------------
(* Screen calls, recorded in the order they are made *)

Call(op, args) == [op |-> op, args |-> args]

DrawMain == Call("Draw", <<"market", "quotes">>)
DrawHelp == Call("Draw", <<"help">>)
DrawQuotes == Call("Draw", <<"quotes">>)
DrawMarket == Call("Draw", <<"market">>)
DrawTime == Call("Draw", <<"time">>)
ClearScreen == Call("Clear", <<>>)
ResizeScreen == Call("Resize", <<>>)

\* True of the calls that paint something on the screen.
IsRedraw(c) == c.op \in {"Draw", "DrawLine"}

Redraws(cs) == SelectSeq(cs, IsRedraw)

-----------------------------------------------------------------------------
(* config.Profile: the operations the dispatcher and the editors call *)

SetFilter(p, f) == [p EXCEPT !.Filter = f]

\* The direction a newly chosen sort column starts with.
DefaultAscending == FALSE

\* Reorder changes the sort order and then saves; err is the outcome of the save.
Reorder(p, err) ==
    [profile |-> IF p.SelectedColumn = p.SortColumn
                 THEN [p EXCEPT !.Ascending = ~p.Ascending]
                 ELSE [p EXCEPT !.SortColumn = p.SelectedColumn,
                                !.Ascending = DefaultAscending],
     err |-> err]

\* Regroup toggles grouping and then saves; err is the outcome of the save.
Regroup(p, err) ==
    [profile |-> [p EXCEPT !.Grouped = ~p.Grouped], err |-> err]

-----------------------------------------------------------------------------
(* view.ColumnEditor *)

redrawHeader == <<Call("DrawLine", <<"header">>), Call("Flush", <<>>)>>

selectCurrentColumn(p) == [p EXCEPT !.SelectedColumn = p.SortColumn]

\* A variant that stops at column 0 instead of wrapping around.
selectLeftColumnClamped(p) ==
    LET c == p.SelectedColumn - 1
    IN  [p EXCEPT !.SelectedColumn = IF c < 0 THEN 0 ELSE c]

selectLeftColumn(p) ==
    LET c == p.SelectedColumn - 1
    IN  [p EXCEPT !.SelectedColumn = IF c < 0 THEN TotalColumns - 1 ELSE c]

selectRightColumn(p) ==
    LET c == p.SelectedColumn + 1
    IN  [p EXCEPT !.SelectedColumn = IF c > TotalColumns - 1 THEN 0 ELSE c]

\* A variant that redraws the quotes whatever Reorder returns.
executeAlwaysDraws(p, err) ==
    LET r == Reorder(p, err)
    IN  [profile |-> r.profile, err |-> r.err, draws |-> <<DrawQuotes>>]

\* execute redraws the quotes when Reorder returns no error.
execute(p, err) ==
    LET r == Reorder(p, err)
    IN  [profile |-> r.profile, err |-> r.err,
         draws |-> IF ~r.err THEN <<DrawQuotes>> ELSE <<>>]

\* A variant that leaves the highlighted column set on exit.
doneKeepingSelection(p) == p

done(p) == [p EXCEPT !.SelectedColumn = -1]

NewColumnEditor(p) ==
    [profile |-> selectCurrentColumn(p), draws |-> redrawHeader]

\* A variant of Handle that also exits on Enter, after the commit.
ColumnEditorHandleExitingOnEnter(ev, p, err) ==
    CASE ev.Key = "KeyEsc" ->
            [profile |-> done(p), done |-> TRUE, err |-> FALSE,
             draws |-> redrawHeader]
      [] ev.Key = "KeyEnter" ->
            LET r == execute(p, err)
            IN  [profile |-> done(r.profile), done |-> TRUE, err |-> r.err,
                 draws |-> r.draws \o redrawHeader]
      [] ev.Key = "KeyArrowLeft" ->
            [profile |-> selectLeftColumn(p), done |-> FALSE, err |-> FALSE,
             draws |-> redrawHeader]
      [] ev.Key = "KeyArrowRight" ->
            [profile |-> selectRightColumn(p), done |-> FALSE, err |-> FALSE,
             draws |-> redrawHeader]
      [] OTHER ->
            [profile |-> p, done |-> FALSE, err |-> FALSE, draws |-> redrawHeader]

\* Handle switches on event.Key; the deferred redrawHeader runs last.
ColumnEditorHandle(ev, p, err) ==
    CASE ev.Key = "KeyEsc" ->
            [profile |-> done(p), done |-> TRUE, err |-> FALSE,
             draws |-> redrawHeader]
      [] ev.Key = "KeyEnter" ->
            LET r == execute(p, err)
            IN  [profile |-> r.profile, done |-> FALSE, err |-> r.err,
                 draws |-> r.draws \o redrawHeader]
      [] ev.Key = "KeyArrowLeft" ->
            [profile |-> selectLeftColumn(p), done |-> FALSE, err |-> FALSE,
             draws |-> redrawHeader]
      [] ev.Key = "KeyArrowRight" ->
            [profile |-> selectRightColumn(p), done |-> FALSE, err |-> FALSE,
             draws |-> redrawHeader]
      [] OTHER ->
            [profile |-> p, done |-> FALSE, err |-> FALSE, draws |-> redrawHeader]

-----------------------------------------------------------------------------
(* view.LineEditor: prompted with '+', '-' or 'f', it captures input until *)
(* Enter (commit) or Esc (cancel).  ok is whether the committed input was  *)
(* accepted; a rejected input leaves the editor active.                    *)

FilterExpression == "last > 0"

Prompt(ch) == <<Call("Prompt", <<ch>>)>>

LineEditorHandle(ev, cmd, p, ok) ==
    CASE ev.Key = "KeyEsc" ->
            [profile |-> p, done |-> TRUE, draws |-> <<Call("LineEditor", <<"cancel">>)>>]
      [] ev.Key = "KeyEnter" /\ ok ->
            [profile |-> IF cmd = "f" THEN SetFilter(p, FilterExpression) ELSE p,
             done |-> TRUE, draws |-> <<Call("LineEditor", <<"commit">>)>>]
      [] OTHER ->
            [profile |-> p, done |-> FALSE, draws |-> <<Call("LineEditor", <<"input">>)>>]

-----------------------------------------------------------------------------
(* mainLoop: the dispatcher *)

\* Variants of Normal that leave out one of its three tests.
NormalIgnoringLineEditor(le, ce, sh) == ce = NIL /\ ~sh

NormalIgnoringHelp(le, ce, sh) == le = NIL /\ ce = NIL

\* main.go:68  no editor is active and help is not showing.
Normal(le, ce, sh) == le = NIL /\ ce = NIL /\ ~sh

\* A variant of the quit test that takes any non-character key for Esc.
IsQuitKeyOnAnyKey(ev) == ev.Key # "" \/ ev.Ch = "q" \/ ev.Ch = "Q"

\* main.go:69
IsQuitKey(ev) == ev.Key = "KeyEsc" \/ ev.Ch = "q" \/ ev.Ch = "Q"

\* main.go:85
IsPauseKey(ev) == ev.Ch = "p" \/ ev.Ch = "P"

\* main.go:88
IsHelpKey(ev) == ev.Ch = "?" \/ ev.Ch = "h" \/ ev.Ch = "H"

\* A variant of the gate that forgets the pause flag.
TickRedrawsIgnoringPause(sh, pa) == ~sh

\* main.go:114, 119, 124  the gate of the three timer ticks.
TickRedraws(sh, pa) == ~sh /\ ~pa

State == [lineEditor |-> lineEditor, columnEditor |-> columnEditor,
          showingHelp |-> showingHelp, paused |-> paused, pc |-> pc,
          profile |-> profile]

\* The result of an iteration that changes nothing and calls nothing.
Skip(s, routed) ==
    [lineEditor |-> s.lineEditor, columnEditor |-> s.columnEditor,
     showingHelp |-> s.showingHelp, paused |-> s.paused, pc |-> s.pc,
     profile |-> s.profile, routed |-> routed, done |-> FALSE, err |-> FALSE,
     draws |-> <<>>]

\* main.go:69-91  a key in Normal state is a command.
NormalKey(ev, s, nd) ==
    LET k == Skip(s, "normal") IN
    CASE IsQuitKey(ev) -> [k EXCEPT !.pc = "done"]
      [] ~IsQuitKey(ev) /\ ev.Ch \in {"+", "-"} ->
            [k EXCEPT !.lineEditor = ev.Ch, !.draws = Prompt(ev.Ch)]
      [] ~IsQuitKey(ev) /\ ev.Ch = "f" ->
            [k EXCEPT !.lineEditor = ev.Ch, !.draws = Prompt(ev.Ch)]
      [] ~IsQuitKey(ev) /\ ev.Ch = "F" ->
            [k EXCEPT !.profile = SetFilter(s.profile, "")]
      [] ~IsQuitKey(ev) /\ ev.Ch \in {"o", "O"} ->
            LET e == NewColumnEditor(s.profile)
            IN  [k EXCEPT !.columnEditor = "editor", !.profile = e.profile,
                          !.draws = e.draws]
      [] ~IsQuitKey(ev) /\ ev.Ch \in {"g", "G"} ->
            LET r == Regroup(s.profile, nd)
            IN  [k EXCEPT !.profile = r.profile, !.err = r.err,
                          !.draws = IF ~r.err THEN <<DrawQuotes>> ELSE <<>>]
      [] ~IsQuitKey(ev) /\ IsPauseKey(ev) ->
            [k EXCEPT !.paused = ~s.paused,
                      !.draws = <<Call("Pause", <<>>), DrawTime>>]
      [] ~IsQuitKey(ev) /\ IsHelpKey(ev) ->
            [k EXCEPT !.showingHelp = TRUE, !.draws = <<ClearScreen, DrawHelp>>]
      [] OTHER -> k

\* A variant of the help branch that also resumes the updates.
HelpKeyClearingPause(s) ==
    [Skip(s, "help") EXCEPT !.showingHelp = FALSE, !.paused = FALSE,
                            !.draws = <<ClearScreen, DrawMain>>]

\* A variant of the help branch that is gated by the pause flag as the ticks are.
HelpKeyGatedByPause(s) ==
    [Skip(s, "help") EXCEPT !.showingHelp = FALSE,
                            !.draws = IF s.paused THEN <<>>
                                      ELSE <<ClearScreen, DrawMain>>]

\* main.go:100-102  any key leaves the help screen.
HelpKey(s) ==
    [Skip(s, "help") EXCEPT !.showingHelp = FALSE,
                            !.draws = <<ClearScreen, DrawMain>>]

\* main.go:67-103  case termbox.EventKey
KeyCase(ev, s, nd) ==
    IF Normal(s.lineEditor, s.columnEditor, s.showingHelp)
    THEN NormalKey(ev, s, nd)
    ELSE IF s.lineEditor # NIL
    THEN LET r == LineEditorHandle(ev, s.lineEditor, s.profile, ~nd)
         IN  [Skip(s, "lineEditor") EXCEPT
                 !.lineEditor = IF r.done THEN NIL ELSE s.lineEditor,
                 !.profile = r.profile, !.done = r.done, !.draws = r.draws]
    ELSE IF s.columnEditor # NIL
    THEN LET r == ColumnEditorHandle(ev, s.profile, nd)
         IN  [Skip(s, "columnEditor") EXCEPT
                 !.columnEditor = IF r.done THEN NIL ELSE s.columnEditor,
                 !.profile = r.profile, !.done = r.done, !.err = r.err,
                 !.draws = r.draws]
    ELSE IF s.showingHelp
    THEN HelpKey(s)
    ELSE Skip(s, "none")

\* A variant of the resize case that is gated by the pause flag as the ticks are.
ResizeCaseGatedByPause(s) ==
    [Skip(s, "resize") EXCEPT
        !.draws = <<ResizeScreen>> \o
                  (IF s.paused THEN <<>>
                   ELSE IF ~s.showingHelp THEN <<DrawMain>> ELSE <<DrawHelp>>)]

\* main.go:104-110  case termbox.EventResize
ResizeCase(s) ==
    [Skip(s, "resize") EXCEPT
        !.draws = <<ResizeScreen>> \o
                  (IF ~s.showingHelp THEN <<DrawMain>> ELSE <<DrawHelp>>)]

\* main.go:65-111  case event := <-keyboardQueue
Dispatch(ev, s, nd) ==
    CASE ev.Type = "EventKey" -> KeyCase(ev, s, nd)
      [] ev.Type = "EventResize" -> ResizeCase(s)
      [] OTHER -> Skip(s, "none")

\* main.go:113-126  the body of a timer case, drawing what.
Tick(s, what) ==
    [Skip(s, "tick") EXCEPT
        !.draws = IF TickRedraws(s.showingHelp, s.paused)
                  THEN <<Call("Draw", <<what>>)>> ELSE <<>>]

\* Whether the one call of an iteration that can fail does fail: saving the
\* profile in Regroup or Reorder, or the line editor accepting its input.
Outcomes == BOOLEAN

Apply(r, src, ev) ==
    /\ lineEditor' = r.lineEditor
    /\ columnEditor' = r.columnEditor
    /\ showingHelp' = r.showingHelp
    /\ paused' = r.paused
    /\ pc' = r.pc
    /\ profile' = r.profile
    /\ draws' = r.draws
    /\ handled' = [src |-> src, event |-> ev, routed |-> r.routed,
                   done |-> r.done, err |-> r.err]

-----------------------------------------------------------------------------
(* view.Markup.  Strings are sequences of one-character strings; Go slice  *)
(* indices are 0-based and half-open, so str[a:b] is SubSeq(str, a+1, b).  *)

Slice(s, a, b) == SubSeq(s, a + 1, b)

\* termbox colors and attributes.
ColorDefault == 0
ColorRed == 2
ColorGreen == 3
ColorWhite == 8
ColorLightBlue == 13
AttrBold == 512
AttrUnderline == 8192
AttrReverse == 32768

\* markup.go:17-35  color names of the configuration (the ones the model
\* configures); a name that is not in the map yields the zero value.
terminalColor(name) ==
    CASE name = "default" -> ColorDefault
      [] name = "green" -> ColorGreen
      [] name = "lightblue" -> ColorLightBlue
      [] name = "red" -> ColorRed
      [] name = "white" -> ColorWhite
      [] OTHER -> 0

\* The tag names of markup.tags.
TagSlash == <<"/">>
TagBase == <<"b", "a", "s", "e">>
TagHighlight == <<"h", "i", "g", "h", "l", "i", "g", "h", "t">>
TagMarket == <<"m", "a", "r", "k", "e", "t">>
TagRight == <<"r", "i", "g", "h", "t">>
TagB == <<"b">>
TagU == <<"u">>
TagR == <<"r">>

TagNames == {TagSlash, TagBase, TagHighlight, TagMarket, TagRight, TagB, TagU, TagR}

\* markup.go:66-75  markup.tags for the configured colors.
Tags(color) ==
    [t \in TagNames |->
        CASE t = TagSlash -> ColorDefault
          [] t = TagBase -> ColorWhite
          [] t = TagHighlight -> terminalColor(color.Highlight)
          [] t = TagMarket -> terminalColor(color.Market)
          [] t = TagRight -> ColorDefault
          [] t = TagB -> AttrBold
          [] t = TagU -> AttrUnderline
          [] t = TagR -> AttrReverse]

\* markup.go:60-79
NewMarkup(color) ==
    [Foreground |-> ColorDefault, Background |-> ColorDefault,
     RightAligned |-> FALSE, tags |-> Tags(color)]

\* s has the characters of t at 0-based offset i.
HasAt(s, i, t) == i + Len(t) <= Len(s) /\ Slice(s, i, i + Len(t)) = t

\* markup.go:157-165  the ends of the matches of `</?tag>` at offset i, over
\* all the tags.  The alternatives are joined in map order, which varies, but
\* every match ends at the first '>' after i, so at most one end exists.
MatchEnds(names, s, i) ==
    {i + Len(t) + 2 : t \in {n \in names : HasAt(s, i, <<"<">> \o n \o <<">">>)}}
    \cup
    {i + Len(t) + 3 : t \in {n \in names : HasAt(s, i, <<"<", "/">> \o n \o <<">">>)}}

RECURSIVE FindFrom(_, _, _)
\* regexp.FindAllStringIndex: the leftmost matches, none overlapping.
FindFrom(names, s, i) ==
    IF i >= Len(s) THEN <<>>
    ELSE LET ends == MatchEnds(names, s, i)
         IN  IF ends = {} THEN FindFrom(names, s, i + 1)
             ELSE LET e == CHOOSE x \in ends : TRUE
                  IN  <<<<i, e>>>> \o FindFrom(names, s, e)

FindAllStringIndex(names, s) == FindFrom(names, s, 0)

\* A variant that appends the text between tags only past the start.
AppendsTextPastStart(head, tail) == head # 0 /\ tail # 0

\* markup.go:99  the text between tags is appended unless the first tag
\* starts the string.
AppendsText(head, tail) == head # 0 \/ tail # 0

\* A variant that appends the text after the last tag even when it is empty.
AppendsRestEither(head, tail, n) == head # n \/ tail # n

\* markup.go:109  the text after the last tag is appended.
AppendsRest(head, tail, n) == head # n /\ tail # n

RECURSIVE TokenizeLoop(_, _, _, _, _, _)
\* markup.go:96-111  the loop over the matches, from match k on, and the
\* statement after it.  match[0] is m[1] and match[1] is m[2].
TokenizeLoop(s, matches, k, head, tail, strings) ==
    IF k > Len(matches)
    THEN IF AppendsRest(head, tail, Len(s))
         THEN Append(strings, Slice(s, head, Len(s)))
         ELSE strings
    ELSE LET m == matches[k]
             text == IF m[2] # 0 /\ AppendsText(head, m[1])
                     THEN Append(strings, Slice(s, head, m[1]))
                     ELSE strings
             tag == IF m[2] # 0
                    THEN Append(text, Slice(s, m[1], m[2]))
                    ELSE text
         IN  TokenizeLoop(s, matches, k + 1, m[2], m[1], tag)

\* markup.go:91-114
Tokenize(m, s) ==
    TokenizeLoop(s, FindAllStringIndex(DOMAIN m.tags, s), 1, 0, 0, <<>>)

\* A variant without the special case of the two-character close "</>".
extractTagNameOfNamedClose(s) ==
    IF Len(s) < 3 THEN <<>>
    ELSE IF Slice(s, 1, 2) # <<"/">> THEN Slice(s, 1, Len(s) - 1)
    ELSE Slice(s, 2, Len(s) - 1)

\* markup.go:177-187
extractTagName(s) ==
    IF Len(s) < 3 THEN <<>>
    ELSE IF Slice(s, 1, 2) # <<"/">> THEN Slice(s, 1, Len(s) - 1)
    ELSE IF Len(s) > 3 THEN Slice(s, 2, Len(s) - 1)
    ELSE <<"/">>

\* A variant of probeForTag that takes every tag for an opening tag.
probeForTagAlwaysOpen(s) ==
    IF Len(s) > 2 /\ Slice(s, 0, 1) = <<"<">> /\ Slice(s, Len(s) - 1, Len(s)) = <<">">>
    THEN [tag |-> extractTagName(s), open |-> TRUE]
    ELSE [tag |-> <<>>, open |-> FALSE]

\* markup.go:168-174
probeForTag(s) ==
    IF Len(s) > 2 /\ Slice(s, 0, 1) = <<"<">> /\ Slice(s, Len(s) - 1, Len(s)) = <<">">>
    THEN [tag |-> extractTagName(s), open |-> Slice(s, 1, 2) # <<"/">>]
    ELSE [tag |-> <<>>, open |-> FALSE]

RECURSIVE BitOr(_, _)
BitOr(a, b) ==
    IF a = 0 THEN b
    ELSE IF b = 0 THEN a
    ELSE (IF a % 2 = 1 \/ b % 2 = 1 THEN 1 ELSE 0) + 2 * BitOr(a \div 2, b \div 2)

RECURSIVE BitAnd(_, _)
\* A variant of a &^ b that forgets the complement: a & b.
BitAnd(a, b) ==
    IF a = 0 \/ b = 0 THEN 0
    ELSE (IF a % 2 = 1 /\ b % 2 = 1 THEN 1 ELSE 0) + 2 * BitAnd(a \div 2, b \div 2)

RECURSIVE BitAndNot(_, _)
\* a &^ b
BitAndNot(a, b) ==
    IF a = 0 THEN 0
    ELSE (IF a % 2 = 1 /\ b % 2 = 0 THEN 1 ELSE 0) + 2 * BitAndNot(a \div 2, b \div 2)

\* A variant that reports a tag only when its name is in markup.tags.
processKnownOnly(m, tag, open) ==
    [ret |-> tag \in DOMAIN m.tags,
     markup |->
        IF tag \in DOMAIN m.tags
        THEN LET attribute == m.tags[tag]
             IN  IF tag = TagRight
                 THEN [m EXCEPT !.RightAligned = open]
                 ELSE IF open
                 THEN IF attribute >= AttrBold
                      THEN [m EXCEPT !.Foreground = BitOr(m.Foreground, attribute)]
                      ELSE [m EXCEPT !.Foreground = attribute]
                 ELSE IF attribute >= AttrBold
                      THEN [m EXCEPT !.Foreground = BitAndNot(m.Foreground, attribute)]
                      ELSE [m EXCEPT !.Foreground = ColorDefault]
        ELSE m]

\* markup.go:130-153
process(m, tag, open) ==
    [ret |-> TRUE,
     markup |->
        IF tag \in DOMAIN m.tags
        THEN LET attribute == m.tags[tag]
             IN  IF tag = TagRight
                 THEN [m EXCEPT !.RightAligned = open]
                 ELSE IF open
                 THEN IF attribute >= AttrBold
                      THEN [m EXCEPT !.Foreground = BitOr(m.Foreground, attribute)]
                      ELSE [m EXCEPT !.Foreground = attribute]
                 ELSE IF attribute >= AttrBold
                      THEN [m EXCEPT !.Foreground = BitAndNot(m.Foreground, attribute)]
                      ELSE [m EXCEPT !.Foreground = ColorDefault]
        ELSE m]

\* markup.go:119-127
IsTag(m, s) ==
    LET p == probeForTag(s)
    IN  IF p.tag = <<>> THEN [ret |-> FALSE, markup |-> m]
        ELSE process(m, p.tag, p.open)

-----------------------------------------------------------------------------
(* Markup inputs *)

GreenTag == <<"<", "g", "r", "e", "e", "n", ">">>
CloseAll == <<"<", "/", ">">>
GreenOK == GreenTag \o <<"O", "K">> \o CloseAll

\* The pieces the input strings are made of: literal text, stray brackets,
\* tags of the vocabulary and a tag that is not part of it.
Pieces ==
    {GreenTag, <<"O", "K">>, CloseAll, <<"<", "b", ">">>, <<"<", "/", "b", ">">>,
     <<"<", "u", ">">>, <<"<">> \o TagMarket \o <<">">>,
     <<"<">> \o TagRight \o <<">">>, <<"<">>, <<">">>}

RECURSIVE Concat(_)
Concat(ss) == IF ss = <<>> THEN <<>> ELSE Head(ss) \o Concat(Tail(ss))

Inputs ==
    {Concat(ps) : ps \in UNION {[1 .. n -> Pieces] : n \in 0 .. MaxPieces}}

\* The colors the profile configures for <highlight> and <market>.
Colors == {[Highlight |-> "green", Market |-> "red"],
           [Highlight |-> "lightblue", Market |-> "nosuchcolor"]}

-----------------------------------------------------------------------------
(* Actions of the dispatcher *)

InitProfile ==
    {[SelectedColumn |-> -1, SortColumn |-> c, Ascending |-> a,
      Filter |-> f, Grouped |-> g] :
        c \in 0 .. TotalColumns - 1, a \in BOOLEAN,
        f \in {"", FilterExpression}, g \in BOOLEAN}

InitLoop ==
    /\ lineEditor = NIL
    /\ columnEditor = NIL
    /\ showingHelp = FALSE
    /\ paused = FALSE
    /\ pc = "loop"
    /\ profile \in InitProfile
    /\ pumpPc = "poll"
    /\ pumpEvent = NoEvent
    /\ handled = [src |-> "start", event |-> NoEvent, routed |-> "none",
                  done |-> FALSE, err |-> FALSE]
    /\ draws = <<DrawMain>>

InitMarkupIdle ==
    /\ str = <<>>
    /\ tokens = <<>>
    /\ markup = NewMarkup([Highlight |-> "default", Market |-> "default"])
    /\ mpc = "idle"
    /\ idx = 0
    /\ applied = <<>>
    /\ ret = FALSE

\* The result of Filter.Apply: a list, or no value when it panicked.
Returned(list) == [panicked |-> FALSE, list |-> list]
Panicked == [panicked |-> TRUE, list |-> <<>>]

FilterIdle ==
    /\ filterStocks = <<>>
    /\ filterText = ""
    /\ filtered = Returned(<<>>)
    /\ evaluated = 0
    /\ fpc = "idle"

\* quotes.Stocks is a slice: nil, or a list that may be empty.
NilStocks == [nil |-> TRUE, list |-> <<>>]
MakeStocks(list) == [nil |-> FALSE, list |-> list]

\* part_002:62-68
NewQuotes == [Stocks |-> NilStocks, errors |-> ""]

NotFetched == [ran |-> FALSE, outcome |-> "none"]

NotChanged == [op |-> "none", count |-> 0, err |-> FALSE]

QuotesIdle ==
    /\ quotes = NewQuotes
    /\ tickers = <<>>
    /\ isClosed = FALSE
    /\ fetched = NotFetched
    /\ changed = NotChanged

\* A variant of the pump that polls on while its last event is not yet
\* received, as it would with a queue that drops.
PollEventWithoutWaiting ==
    /\ pc = "loop"
    /\ \E ev \in Events : pumpEvent' = ev
    /\ pumpPc' = "send"
    /\ UNCHANGED <<lineEditor, columnEditor, showingHelp, paused, pc, profile,
                   handled, draws>>
    /\ UNCHANGED <<markupVars, filterVars, quotesVars>>

\* main.go:52-56  the pump blocks in termbox.PollEvent() until an event arrives.
PollEvent ==
    /\ pc = "loop"
    /\ pumpPc = "poll"
    /\ \E ev \in Events : pumpEvent' = ev
    /\ pumpPc' = "send"
    /\ UNCHANGED <<lineEditor, columnEditor, showingHelp, paused, pc, profile,
                   handled, draws>>
    /\ UNCHANGED <<markupVars, filterVars, quotesVars>>

\* main.go:65  the loop receives from the unbuffered keyboardQueue.
KeyboardEvent ==
    /\ pc = "loop"
    /\ pumpPc = "send"
    /\ \E nd \in Outcomes : Apply(Dispatch(pumpEvent, State, nd), "keyboard", pumpEvent)
    /\ pumpPc' = "poll"
    /\ pumpEvent' = NoEvent
    /\ UNCHANGED <<markupVars, filterVars, quotesVars>>

\* main.go:113
TimestampTick ==
    /\ pc = "loop"
    /\ Apply(Tick(State, "time"), "timestamp", NoEvent)
    /\ UNCHANGED <<pumpPc, pumpEvent>>
    /\ UNCHANGED <<markupVars, filterVars, quotesVars>>

\* main.go:118
QuotesTick ==
    /\ pc = "loop"
    /\ Apply(Tick(State, "quotes"), "quotes", NoEvent)
    /\ UNCHANGED <<pumpPc, pumpEvent>>
    /\ UNCHANGED <<markupVars, filterVars, quotesVars>>

\* main.go:123
MarketTick ==
    /\ pc = "loop"
    /\ Apply(Tick(State, "market"), "market", NoEvent)
    /\ UNCHANGED <<pumpPc, pumpEvent>>
    /\ UNCHANGED <<markupVars, filterVars, quotesVars>>

Init == InitLoop /\ InitMarkupIdle /\ FilterIdle /\ QuotesIdle

Next ==
    \/ PollEvent
    \/ KeyboardEvent
    \/ TimestampTick
    \/ QuotesTick
    \/ MarketTick

Spec == Init /\ [][Next]_vars

-----------------------------------------------------------------------------
(* Rendering a line: the string is tokenized and every token is given to   *)
(* IsTag in order.                                                         *)

LoopIdle ==
    /\ lineEditor = NIL
    /\ columnEditor = NIL
    /\ showingHelp = FALSE
    /\ paused = FALSE
    /\ pc = "loop"
    /\ profile = [SelectedColumn |-> -1, SortColumn |-> 0, Ascending |-> FALSE,
                  Filter |-> "", Grouped |-> FALSE]
    /\ pumpPc = "poll"
    /\ pumpEvent = NoEvent
    /\ handled = [src |-> "start", event |-> NoEvent, routed |-> "none",
                  done |-> FALSE, err |-> FALSE]
    /\ draws = <<DrawMain>>

InitMarkup ==
    /\ LoopIdle /\ FilterIdle /\ QuotesIdle
    /\ str \in Inputs
    /\ tokens = <<>>
    /\ \E color \in Colors : markup = NewMarkup(color)
    /\ mpc = "start"
    /\ idx = 0
    /\ applied = <<>>
    /\ ret = FALSE

DoTokenize ==
    /\ mpc = "start"
    /\ tokens' = Tokenize(markup, str)
    /\ mpc' = "tokenized"
    /\ UNCHANGED <<str, markup, idx, applied, ret>>
    /\ UNCHANGED <<loopVars, filterVars, quotesVars>>

DoIsTag ==
    /\ mpc = "tokenized"
    /\ idx < Len(tokens)
    /\ markup' = IsTag(markup, tokens[idx + 1]).markup
    /\ ret' = IsTag(markup, tokens[idx + 1]).ret
    /\ applied' = Append(applied, tokens[idx + 1])
    /\ idx' = idx + 1
    /\ UNCHANGED <<str, tokens, mpc>>
    /\ UNCHANGED <<loopVars, filterVars, quotesVars>>

NextMarkup ==
    \/ DoTokenize
    \/ DoIsTag

SpecMarkup == InitMarkup /\ [][NextMarkup]_vars

-----------------------------------------------------------------------------
(* Render state: strings are given to IsTag one after the other, starting  *)
(* from the state NewMarkup leaves.                                        *)

\* Longest sequence of strings given to IsTag.
MaxTags == 4

OpenTag(name) == <<"<">> \o name \o <<">">>
CloseTag(name) == <<"<", "/">> \o name \o <<">">>

\* Tags of the vocabulary, a tag that is not part of it, and strings that
\* are not tags: "<>", "OK", "<b" and the empty string.
TagInputs ==
    {OpenTag(TagB), CloseTag(TagB), OpenTag(TagU), OpenTag(TagR), CloseTag(TagR),
     CloseAll, OpenTag(TagHighlight), CloseTag(TagMarket),
     OpenTag(TagRight), CloseTag(TagRight), GreenTag,
     <<"<", ">">>, <<"O", "K">>, <<"<", "b">>, <<>>}

InitTags ==
    /\ LoopIdle /\ FilterIdle /\ QuotesIdle
    /\ str = <<>>
    /\ tokens = <<>>
    /\ \E color \in Colors : markup = NewMarkup(color)
    /\ mpc = "tags"
    /\ idx = 0
    /\ applied = <<>>
    /\ ret = FALSE

DoTag ==
    /\ mpc = "tags"
    /\ idx < MaxTags
    /\ \E t \in TagInputs :
         /\ str' = t
         /\ markup' = IsTag(markup, t).markup
         /\ ret' = IsTag(markup, t).ret
         /\ applied' = Append(applied, t)
    /\ idx' = idx + 1
    /\ UNCHANGED <<tokens, mpc>>
    /\ UNCHANGED <<loopVars, filterVars, quotesVars>>

NextTags == DoTag

SpecTags == InitTags /\ [][NextTags]_vars

-----------------------------------------------------------------------------
(* view.Filter.  A stock carries, besides its ticker, what the filter      *)
(* expression evaluates to on it: true, false, a value that is not a       *)
(* boolean, or an error.                                                   *)

\* Longest list of stocks given to Filter.Apply.
MaxStocks == 3

EvalOutcomes == {"true", "false", "nonbool", "error"}

StockRecords == [Ticker : {"GOOG", "BA"}, Eval : EvalOutcomes]

\* markup.go:243  filter.profile.FilterExpression.Evaluate(values)
Evaluate(stock) == stock.Eval

\* markup.go:245  err != nil
EvaluationFailed(o) == o = "error"

\* A variant that takes every result for a boolean.
NotBooleanUnchecked(o) == FALSE

\* markup.go:249-251  the result is not a bool.
NotBoolean(o) == o = "nonbool"

\* markup.go:255
Truthy(o) == o = "true"

RECURSIVE ApplyLoop(_, _, _, _)
\* markup.go:221-260  the loop from stock k on; a panic leaves Apply
\* without a return value.
ApplyLoop(stocks, k, filteredStocks, calls) ==
    IF k > Len(stocks)
    THEN [result |-> Returned(filteredStocks), evaluated |-> calls]
    ELSE LET o == Evaluate(stocks[k])
         IN  IF EvaluationFailed(o)
             THEN [result |-> Panicked, evaluated |-> calls + 1]
             ELSE IF NotBoolean(o)
             THEN [result |-> Panicked, evaluated |-> calls + 1]
             ELSE ApplyLoop(stocks, k + 1,
                            IF Truthy(o) THEN Append(filteredStocks, stocks[k])
                            ELSE filteredStocks,
                            calls + 1)

\* markup.go:218-261
FilterApply(stocks) == ApplyLoop(stocks, 1, <<>>, 0)

InitFilter ==
    /\ LoopIdle /\ InitMarkupIdle /\ QuotesIdle
    /\ filterStocks \in UNION {[1 .. n -> StockRecords] : n \in 0 .. MaxStocks}
    /\ filterText \in {"", FilterExpression}
    /\ filtered = Returned(<<>>)
    /\ evaluated = 0
    /\ fpc = "start"

DoApply ==
    /\ fpc = "start"
    /\ filtered' = FilterApply(filterStocks).result
    /\ evaluated' = FilterApply(filterStocks).evaluated
    /\ fpc' = "done"
    /\ UNCHANGED <<filterStocks, filterText>>
    /\ UNCHANGED <<loopVars, markupVars, quotesVars>>

NextFilter == DoApply

SpecFilter == InitFilter /\ [][NextFilter]_vars

-----------------------------------------------------------------------------
(* model.Quotes *)

\* Most tracked symbols, and most results in a response.
MaxTickers == 2
MaxResults == 2

Symbols == {"GOOG", "BA"}

\* An entry of quoteResponse.result: the symbol and the sign of
\* regularMarketChange.
RawResults == [symbol : Symbols, regularMarketChange : {-1, 1}]

\* What the request of a Fetch comes to: http.Get fails, reading the body
\* fails, the body is not the JSON parse2 expects, or it is and has results.
Responses ==
    {[kind |-> k, results |-> <<>>] : k \in {"httpError", "readError", "badBody"}}
    \cup {[kind |-> "body", results |-> rs] :
             rs \in UNION {[1 .. n -> RawResults] : n \in 0 .. MaxResults}}

\* part_002:77  the text Fetch leaves in quotes.errors after a panic.
FetchError == "Error fetching stock quotes..."

\* A variant of isReady that fetches whether or not the market is closed.
isReadyIgnoringMarket(q, tks, closed) == Len(tks) > 0

\* part_002:130-132
isReady(q, tks, closed) == (q.Stocks.nil \/ ~closed) /\ Len(tks) > 0

\* part_002:162-195  one Stock of parse2; a stock advances when its change
\* is not negative.
ParseStock(raw) ==
    [Ticker |-> raw.symbol, Advancing |-> raw.regularMarketChange >= 0]

\* part_002:135-198  json.Unmarshal fails before Stocks is assigned;
\* otherwise Stocks gets one Stock per result.
parse2(q, resp) ==
    IF resp.kind = "badBody"
    THEN [quotes |-> q, err |-> TRUE]
    ELSE [quotes |-> [q EXCEPT !.Stocks =
                        MakeStocks([i \in 1 .. Len(resp.results) |->
                                        ParseStock(resp.results[i])])],
          err |-> FALSE]

\* part_002:72-99  a panic is recovered into quotes.errors; without one
\* the deferred function clears quotes.errors.  The values parse2 returns
\* are not used (part_002:95).
Fetch(q, tks, closed, resp) ==
    IF isReady(q, tks, closed)
    THEN IF resp.kind \in {"httpError", "readError"}
         THEN [q EXCEPT !.errors = FetchError]
         ELSE [parse2(q, resp).quotes EXCEPT !.errors = ""]
    ELSE q

\* part_002:103-105
Ok(q) == q.errors = ""

InitQuotes ==
    /\ LoopIdle /\ InitMarkupIdle /\ FilterIdle
    /\ quotes = NewQuotes
    /\ tickers \in UNION {[1 .. n -> Symbols] : n \in 0 .. MaxTickers}
    /\ isClosed \in BOOLEAN
    /\ fetched = NotFetched
    /\ changed = NotChanged

DoFetch ==
    /\ \E resp \in Responses :
         /\ quotes' = Fetch(quotes, tickers, isClosed, resp)
         /\ fetched' = [ran |-> isReady(quotes, tickers, isClosed),
                        outcome |-> resp.kind]
    /\ changed' = NotChanged
    /\ UNCHANGED <<tickers, isClosed>>
    /\ UNCHANGED <<loopVars, markupVars, filterVars>>

NextQuotes == DoFetch

SpecQuotes == InitQuotes /\ [][NextQuotes]_vars

-----------------------------------------------------------------------------
(* model.Quotes with a changing set of tracked symbols *)

\* Most symbols in one call of AddTickers or RemoveTickers.
MaxListed == 2

TickerLists == UNION {[1 .. n -> Symbols] : n \in 0 .. MaxListed}

Listed(list) == {list[i] : i \in 1 .. Len(list)}

\* Profile.AddTickers: appends the listed symbols that are not tracked yet
\* and counts them; err tells that the profile could not be saved.
RECURSIVE AddEach(_, _, _)
AddEach(tks, list, k) ==
    IF k > Len(list)
    THEN tks
    ELSE AddEach(IF list[k] \in Listed(tks) THEN tks ELSE Append(tks, list[k]),
                 list, k + 1)

ProfileAddTickers(tks, list, fails) ==
    LET after == AddEach(tks, list, 1)
    IN  [tickers |-> after, count |-> Len(after) - Len(tks), err |-> fails]

\* Profile.RemoveTickers: drops the listed symbols that are tracked and
\* counts them.
ProfileRemoveTickers(tks, list, fails) ==
    LET after == SelectSeq(tks, LAMBDA t : t \notin Listed(list))
    IN  [tickers |-> after, count |-> Len(tks) - Len(after), err |-> fails]

\* A variant of AddTickers that looks at the count only.
AddTickersIgnoringError(q, r) ==
    IF r.count > 0 THEN [q EXCEPT !.Stocks = NilStocks] ELSE q

\* part_002:110-115  r is what quotes.Profile.AddTickers returned.
AddTickers(q, r) ==
    IF ~r.err /\ r.count > 0 THEN [q EXCEPT !.Stocks = NilStocks] ELSE q

\* part_002:120-125  r is what quotes.Profile.RemoveTickers returned.
RemoveTickers(q, r) ==
    IF ~r.err /\ r.count > 0 THEN [q EXCEPT !.Stocks = NilStocks] ELSE q

InitTickers ==
    /\ LoopIdle /\ InitMarkupIdle /\ FilterIdle
    /\ quotes = NewQuotes
    /\ tickers \in UNION {[1 .. n -> Symbols] : n \in 0 .. MaxTickers}
    /\ isClosed \in BOOLEAN
    /\ fetched = NotFetched
    /\ changed = NotChanged

DoAddTickers ==
    /\ \E list \in TickerLists, fails \in BOOLEAN :
         LET r == ProfileAddTickers(tickers, list, fails)
         IN  /\ tickers' = r.tickers
             /\ quotes' = AddTickers(quotes, r)
             /\ changed' = [op |-> "AddTickers", count |-> r.count,
                            err |-> r.err]
    /\ fetched' = NotFetched
    /\ UNCHANGED isClosed
    /\ UNCHANGED <<loopVars, markupVars, filterVars>>

DoRemoveTickers ==
    /\ \E list \in TickerLists, fails \in BOOLEAN :
         LET r == ProfileRemoveTickers(tickers, list, fails)
         IN  /\ tickers' = r.tickers
             /\ quotes' = RemoveTickers(quotes, r)
             /\ changed' = [op |-> "RemoveTickers", count |-> r.count,
                            err |-> r.err]
    /\ fetched' = NotFetched
    /\ UNCHANGED isClosed
    /\ UNCHANGED <<loopVars, markupVars, filterVars>>

\* Market.Fetch: the market opens or closes between two fetches.
DoMarketFetch ==
    /\ isClosed' = ~isClosed
    /\ fetched' = NotFetched
    /\ changed' = NotChanged
    /\ UNCHANGED <<quotes, tickers>>
    /\ UNCHANGED <<loopVars, markupVars, filterVars>>

NextTickers == DoFetch \/ DoAddTickers \/ DoRemoveTickers \/ DoMarketFetch

SpecTickers == InitTickers /\ [][NextTickers]_vars


TypeOK ==
    /\ lineEditor \in {NIL, "+", "-", "f"}
    /\ columnEditor \in {NIL, "editor"}
    /\ showingHelp \in BOOLEAN
    /\ paused \in BOOLEAN
    /\ pc \in {"loop", "done"}
    /\ pumpPc \in {"poll", "send"}

-----------------------------------------------------------------------------
(* Properties of the dispatcher *)

\* The step in which the loop receives a key event from the keyboard queue.
KeyStep == pumpPc = "send" /\ pumpPc' = "poll" /\ pumpEvent.Type = "EventKey"

\* The step in which the loop receives a resize event.
ResizeStep == pumpPc = "send" /\ pumpPc' = "poll" /\ pumpEvent.Type = "EventResize"

\* A step of one of the three tickers: the pump does not move.
TickStep == pumpPc' = pumpPc

\* C1: while lineEditor or columnEditor is non-nil every key event goes to
\* that editor's Handle and to nothing else: the loop does not terminate,
\* help and pause do not change, the other editor stays nil, the profile and
\* the screen calls are those of Handle, and the editor becomes nil exactly
\* when Handle returns true.  The loop terminates only on Esc, 'q' or 'Q'
\* handled with both editors nil and help not showing.
C1_FocusExclusive ==
    [][/\ (KeyStep /\ lineEditor # NIL) =>
            /\ handled'.routed = "lineEditor"
            /\ pc' = "loop" /\ columnEditor' = NIL
            /\ showingHelp' = showingHelp /\ paused' = paused
            /\ lineEditor' = (IF handled'.done THEN NIL ELSE lineEditor)
            /\ \E ok \in BOOLEAN :
                 LET r == LineEditorHandle(pumpEvent, lineEditor, profile, ok)
                 IN  profile' = r.profile /\ draws' = r.draws /\ handled'.done = r.done
       /\ (KeyStep /\ columnEditor # NIL) =>
            /\ handled'.routed = "columnEditor"
            /\ pc' = "loop" /\ lineEditor' = NIL
            /\ showingHelp' = showingHelp /\ paused' = paused
            /\ columnEditor' = (IF handled'.done THEN NIL ELSE columnEditor)
            /\ \E err \in BOOLEAN :
                 LET r == ColumnEditorHandle(pumpEvent, profile, err)
                 IN  profile' = r.profile /\ draws' = r.draws /\ handled'.done = r.done
       /\ (pc = "loop" /\ pc' = "done") =>
            /\ KeyStep /\ IsQuitKey(pumpEvent)
            /\ lineEditor = NIL /\ columnEditor = NIL /\ ~showingHelp
       /\ (~KeyStep /\ lineEditor # NIL) => lineEditor' = lineEditor
       /\ (~KeyStep /\ columnEditor # NIL) => columnEditor' = columnEditor
      ]_vars

\* C1 witness: 'q' was handled by the line editor, which is still active,
\* and the loop goes on.
C1_Witness ==
    /\ lineEditor # NIL /\ pc = "loop"
    /\ handled.routed = "lineEditor" /\ handled.event.Ch = "q"

NumberOfModes ==
    (IF lineEditor # NIL THEN 1 ELSE 0) + (IF columnEditor # NIL THEN 1 ELSE 0)
        + (IF showingHelp THEN 1 ELSE 0)

\* C2: at most one of lineEditor # nil, columnEditor # nil, showingHelp holds;
\* none holds initially, none holds after an editor's Handle returned true,
\* and none holds after a key was handled while help was showing.
C2_ModesExclusive ==
    /\ NumberOfModes <= 1
    /\ handled.src = "start" => NumberOfModes = 0
    /\ (handled.routed \in {"lineEditor", "columnEditor"} /\ handled.done)
          => NumberOfModes = 0
    /\ handled.routed = "help" => NumberOfModes = 0

\* C2 witness: the column editor has just reported done.
C2_Witness ==
    /\ handled.routed = "columnEditor" /\ handled.done
    /\ NumberOfModes = 0

TickSources == {"timestamp", "quotes", "market"}

TickDraws(src) ==
    CASE src = "timestamp" -> DrawTime
      [] src = "quotes" -> DrawQuotes
      [] src = "market" -> DrawMarket

\* C3: handling a tick of any of the three tickers draws (the time, the
\* quotes, the market) if and only if showingHelp and paused are both false
\* at that moment, and changes none of lineEditor, columnEditor, showingHelp,
\* paused.
C3_TickGate ==
    [][TickStep =>
         /\ handled'.src \in TickSources
         /\ draws' = (IF ~showingHelp /\ ~paused
                      THEN <<TickDraws(handled'.src)>> ELSE <<>>)
         /\ UNCHANGED <<lineEditor, columnEditor, showingHelp, paused>>
      ]_vars

\* C3 witness: a quotes tick handled while paused drew nothing.
C3_Witness ==
    /\ handled.src = "quotes" /\ paused /\ ~showingHelp /\ draws = <<>>

\* C4: handling a resize event redraws exactly once, the help screen when
\* showingHelp and the main screen otherwise, whatever paused and the
\* editors are, and changes none of lineEditor, columnEditor, showingHelp,
\* paused.
C4_ResizeRedraws ==
    [][ResizeStep =>
         /\ Redraws(draws') = <<IF showingHelp THEN DrawHelp ELSE DrawMain>>
         /\ UNCHANGED <<lineEditor, columnEditor, showingHelp, paused>>
      ]_vars

\* C4 witness: a resize was handled while paused with the line editor
\* active, and the main screen was drawn.
C4_Witness ==
    /\ handled.routed = "resize" /\ paused /\ lineEditor # NIL
    /\ Redraws(draws) = <<DrawMain>>

\* C5: while showingHelp, any key event clears showingHelp and clears and
\* redraws the main screen, paused or not; the key is not a command: the
\* loop goes on, paused and the profile (filter included) are unchanged and
\* no editor opens.
C5_HelpConsumesKey ==
    [][(KeyStep /\ showingHelp) =>
         /\ showingHelp' = FALSE
         /\ draws' = <<ClearScreen, DrawMain>>
         /\ pc' = "loop" /\ paused' = paused /\ profile' = profile
         /\ lineEditor' = NIL /\ columnEditor' = NIL
      ]_vars

\* C5 witness: 'q' was handled while help was showing and paused was set;
\* the main screen was redrawn and the loop goes on.
C5_Witness ==
    /\ handled.routed = "help" /\ handled.event.Ch = "q" /\ paused
    /\ ~showingHelp /\ pc = "loop" /\ draws = <<ClearScreen, DrawMain>>

\* The step of the pump: PollEvent returned an event.
PumpStep == pumpPc = "poll" /\ pumpPc' = "send"

\* The step in which the loop receives the event the pump sends.
ReceiveStep == pumpPc = "send" /\ pumpPc' = "poll"

\* C18: the pump is the only sender and the loop the only receiver of the
\* keyboard queue.  The pump holds one polled event until the loop receives
\* it, the loop handles exactly that event, and nothing but a receive makes
\* the loop handle a keyboard event; the pump's own step leaves the
\* dispatcher state as it is.
C18_PumpDeliversInOrder ==
    [][/\ PumpStep =>
            /\ pumpEvent' \in Events
            /\ UNCHANGED <<lineEditor, columnEditor, showingHelp, paused, pc,
                           profile, handled, draws>>
       /\ ReceiveStep =>
            /\ handled'.src = "keyboard" /\ handled'.event = pumpEvent
            /\ pumpEvent' = NoEvent
       /\ (pumpPc = "send" /\ pumpPc' = "send") => pumpEvent' = pumpEvent
       /\ (~ReceiveStep /\ handled' # handled) => handled'.src \in TickSources
      ]_vars

\* C18 witness: the loop handled a key, a tick came, and the pump holds the
\* next event.
C18_Witness ==
    /\ pumpPc = "send" /\ pumpEvent = Event("EventKey", "", "p")
    /\ handled.src = "timestamp" /\ paused

\* C20: paused changes only when 'p' or 'P' is handled with both editors nil
\* and help not showing, and then it is flipped; no other event changes it.
C20_PauseOnlyByPauseKey ==
    [][/\ paused' # paused =>
            /\ KeyStep /\ pumpEvent.Ch \in {"p", "P"}
            /\ lineEditor = NIL /\ columnEditor = NIL /\ ~showingHelp
       /\ (KeyStep /\ pumpEvent.Ch \in {"p", "P"}
             /\ lineEditor = NIL /\ columnEditor = NIL /\ ~showingHelp)
            => paused' = ~paused
      ]_vars

\* C20 witness: help was left with 'p' while paused, and paused is still set.
C20_Witness ==
    /\ handled.routed = "help" /\ handled.event.Ch = "p"
    /\ paused /\ ~showingHelp

\* The characters main.go:69-88 tests for.
CommandChars == {"q", "Q", "+", "-", "f", "F", "o", "O", "g", "G", "p", "P",
                 "?", "h", "H"}

IsCommand(ev) == ev.Key = "KeyEsc" \/ ev.Ch \in CommandChars

\* C24: a key that is not a command, handled with both editors nil and help
\* not showing, does nothing: the editors stay nil, help, pause and the
\* profile (filter included) keep their values, no screen call is made, the
\* loop goes on and no error is raised.
C24_UnknownKeyIsNoOp ==
    [][(KeyStep /\ Normal(lineEditor, columnEditor, showingHelp)
          /\ ~IsCommand(pumpEvent)) =>
            /\ lineEditor' = NIL /\ columnEditor' = NIL
            /\ showingHelp' = showingHelp /\ paused' = paused
            /\ profile' = profile
            /\ draws' = <<>>
            /\ pc' = "loop"
            /\ handled'.routed = "normal" /\ ~handled'.err /\ ~handled'.done
      ]_vars

\* C24 witness: Enter was handled in Normal state while paused; nothing was
\* drawn and the loop goes on.
C24_Witness ==
    /\ handled.src = "keyboard" /\ handled.routed = "normal"
    /\ handled.event.Key = "KeyEnter"
    /\ lineEditor = NIL /\ columnEditor = NIL /\ ~showingHelp /\ paused
    /\ draws = <<>> /\ pc = "loop"

-----------------------------------------------------------------------------
(* Properties of the column editor *)

\* The step in which the column editor handles the key k.
ColumnKeyStep(k) == KeyStep /\ columnEditor # NIL /\ pumpEvent.Key = k

\* C6: in the column editor ArrowLeft moves the highlighted column from c to
\* c-1 and from 0 to N-1, ArrowRight from c to c+1 and from N-1 to 0, with
\* N = TotalColumns; neither changes the sort column or the direction.
C6_ArrowsWrap ==
    [][/\ ColumnKeyStep("KeyArrowLeft") =>
            /\ profile'.SelectedColumn =
                 (IF profile.SelectedColumn = 0 THEN TotalColumns - 1
                  ELSE profile.SelectedColumn - 1)
            /\ profile'.SortColumn = profile.SortColumn
            /\ profile'.Ascending = profile.Ascending
       /\ ColumnKeyStep("KeyArrowRight") =>
            /\ profile'.SelectedColumn =
                 (IF profile.SelectedColumn = TotalColumns - 1 THEN 0
                  ELSE profile.SelectedColumn + 1)
            /\ profile'.SortColumn = profile.SortColumn
            /\ profile'.Ascending = profile.Ascending
      ]_vars

\* C6 witness: ArrowLeft took the highlight from column 0 to the last column.
C6_Witness ==
    /\ handled.routed = "columnEditor" /\ handled.event.Key = "KeyArrowLeft"
    /\ profile.SelectedColumn = TotalColumns - 1

\* C7: Enter in the column editor reverses the direction and keeps the sort
\* column when the highlighted column is the sort column, and otherwise
\* makes the highlighted column the sort column with the default direction;
\* the quotes are redrawn exactly when Reorder returned no error, and the
\* editor stays active.
C7_EnterReorders ==
    [][ColumnKeyStep("KeyEnter") =>
         /\ IF profile.SelectedColumn = profile.SortColumn
            THEN /\ profile'.SortColumn = profile.SortColumn
                 /\ profile'.Ascending = ~profile.Ascending
            ELSE /\ profile'.SortColumn = profile.SelectedColumn
                 /\ profile'.Ascending = DefaultAscending
         /\ draws' = (IF handled'.err THEN <<>> ELSE <<DrawQuotes>>) \o redrawHeader
         /\ ~handled'.done
         /\ columnEditor' = columnEditor
      ]_vars

\* C7 witness: Enter was handled by the column editor, Reorder failed and
\* only the header was redrawn.
C7_Witness ==
    /\ handled.routed = "columnEditor" /\ handled.event.Key = "KeyEnter"
    /\ handled.err /\ draws = redrawHeader /\ columnEditor # NIL

IsHeaderDraw(c) == c = Call("DrawLine", <<"header">>)

\* C19: Handle returns true for Esc only, and on Esc the highlighted column
\* becomes -1; every call, whatever the key, redraws the header once, after
\* the key is processed; a key Handle does not know changes no session state.
C19_HandleExitsOnEscOnly ==
    [][(KeyStep /\ columnEditor # NIL) =>
         /\ handled'.done <=> pumpEvent.Key = "KeyEsc"
         /\ columnEditor' = (IF pumpEvent.Key = "KeyEsc" THEN NIL ELSE columnEditor)
         /\ pumpEvent.Key = "KeyEsc" => profile'.SelectedColumn = -1
         /\ Len(SelectSeq(draws', IsHeaderDraw)) = 1
         /\ Len(draws') >= 2
         /\ SubSeq(draws', Len(draws') - 1, Len(draws')) = redrawHeader
         /\ pumpEvent.Key \notin {"KeyEsc", "KeyEnter", "KeyArrowLeft", "KeyArrowRight"}
              => profile' = profile
      ]_vars

\* C19 witness: 'q' went to the column editor, which stays active and
\* redrew the header.
C19_Witness ==
    /\ handled.routed = "columnEditor" /\ handled.event.Ch = "q"
    /\ ~handled.done /\ columnEditor # NIL /\ draws = redrawHeader

\* C8: the highlighted column is -1 or in [0, TotalColumns): in range while
\* the column editor is active, -1 while it is not.
C8_SelectedColumnInRange ==
    /\ profile.SelectedColumn \in {-1} \cup (0 .. TotalColumns - 1)
    /\ columnEditor # NIL => profile.SelectedColumn \in 0 .. TotalColumns - 1
    /\ columnEditor = NIL => profile.SelectedColumn = -1

\* C8 witness: the column editor was left with Esc after it had been active.
C8_Witness ==
    /\ handled.routed = "columnEditor" /\ handled.done
    /\ columnEditor = NIL /\ profile.SelectedColumn = -1

-----------------------------------------------------------------------------
(* Properties of the markup *)

\* C9: concatenating the tokens of Tokenize in order gives the input string.
C9_TokensRebuildInput == mpc = "tokenized" => Concat(tokens) = str

\* C9 witness: a string that starts with literal text and has two tags was
\* tokenized into four tokens.
C9_Witness ==
    /\ mpc = "tokenized"
    /\ str = <<"O", "K", "<", "b", ">", "<", "/", ">">>
    /\ Len(tokens) = 4

\* C10: Tokenize of <green>OK</> returns the three tokens <green>, OK, </>;
\* IsTag of token 0 sets Foreground to green and IsTag of token 2 resets it
\* to the default color.
C10_GreenExample ==
    (str = GreenOK /\ mpc = "tokenized") =>
        /\ tokens = <<GreenTag, <<"O", "K">>, CloseAll>>
        /\ idx \in {1, 2} => markup.Foreground = ColorGreen
        /\ idx = 3 => markup.Foreground = ColorDefault

-----------------------------------------------------------------------------
(* Properties of the render state *)

\* The step in which IsTag is called; str' is the string it is given.
TagStep == mpc = "tags" /\ idx' = idx + 1

Last(q) == q[Len(q)]

\* C11: after any sequence of tags, processing the universal close tag </>
\* leaves Foreground at the default color, and processing it again leaves
\* it there.
C11_CloseAllResets ==
    (mpc = "tags" /\ applied # <<>> /\ Last(applied) = CloseAll)
        => markup.Foreground = ColorDefault

\* C11 witness: <highlight>, configured green, then </> twice.
C11_Witness ==
    /\ mpc = "tags"
    /\ markup.tags[TagHighlight] = ColorGreen
    /\ applied = <<OpenTag(TagHighlight), CloseAll, CloseAll>>
    /\ markup.Foreground = ColorDefault

\* Whether the attribute bit is set in the attribute word f.
HasBit(f, bit) == (f \div bit) % 2 = 1

\* The attribute word f with the attribute bit cleared.
Without(f, bit) == IF HasBit(f, bit) THEN f - bit ELSE f

AttributeBit(name) ==
    CASE name = TagB -> AttrBold
      [] name = TagU -> AttrUnderline
      [] name = TagR -> AttrReverse

\* C12: opening <b>, <u> or <r> sets that attribute's bit in Foreground and
\* closing it clears that bit; the color and the other bits stay as they
\* were, whether or not the bit was set before.  After <b>, <u>, </b> the
\* underline bit is set and the bold bit is cleared.
C12_AttributesLayer ==
    [][TagStep =>
         /\ \A name \in {TagB, TagU, TagR} :
              /\ str' = OpenTag(name) =>
                   /\ HasBit(markup'.Foreground, AttributeBit(name))
                   /\ Without(markup'.Foreground, AttributeBit(name))
                        = Without(markup.Foreground, AttributeBit(name))
              /\ str' = CloseTag(name) =>
                   /\ ~HasBit(markup'.Foreground, AttributeBit(name))
                   /\ markup'.Foreground
                        = Without(markup.Foreground, AttributeBit(name))
         /\ (Len(applied') >= 3
               /\ SubSeq(applied', Len(applied') - 2, Len(applied'))
                    = <<OpenTag(TagB), OpenTag(TagU), CloseTag(TagB)>>) =>
              /\ HasBit(markup'.Foreground, AttrUnderline)
              /\ ~HasBit(markup'.Foreground, AttrBold)
      ]_vars

\* C12 witness: <highlight>, configured green, then <b>, <u>, </b>: green
\* with underline and without bold.
C12_Witness ==
    /\ mpc = "tags"
    /\ applied = <<OpenTag(TagHighlight), OpenTag(TagB), OpenTag(TagU), CloseTag(TagB)>>
    /\ markup.Foreground = ColorGreen + AttrUnderline

\* The strings <name> and </name> for the names of the vocabulary.
KnownTagStrings ==
    {OpenTag(n) : n \in TagNames} \cup {CloseTag(n) : n \in TagNames}

\* Longer than two characters, starting with '<' and ending with '>'.
Bracketed(s) == Len(s) > 2 /\ Head(s) = "<" /\ s[Len(s)] = ">"

\* C13: IsTag returns false and changes no render state for a string of
\* length <= 2 or not enclosed in '<' and '>'; for an enclosed string whose
\* name is not in the vocabulary it returns true and changes no render state.
C13_NonTagsAndUnknownTags ==
    [][TagStep =>
         /\ ~Bracketed(str') => (~ret' /\ markup' = markup)
         /\ (Bracketed(str') /\ str' \notin KnownTagStrings)
              => (ret' /\ markup' = markup)
      ]_vars

\* C13 witness: with a color and an attribute set, <green> was reported as
\* a tag.
C13_Witness ==
    /\ mpc = "tags" /\ str = GreenTag /\ ret
    /\ applied = <<OpenTag(TagHighlight), OpenTag(TagB), GreenTag>>
    /\ markup.Foreground = markup.tags[TagHighlight] + AttrBold

-----------------------------------------------------------------------------
(* Properties of the filter *)

Passes(stock) == stock.Eval = "true"

\* C14: Filter.Apply returns the records on which the expression is true,
\* in their original order and none twice; with an empty filter expression
\* it returns its input without evaluating the expression.
C14_FilterSelects ==
    fpc = "done" =>
        /\ ~filtered.panicked => filtered.list = SelectSeq(filterStocks, Passes)
        /\ filterText = "" => (filtered = Returned(filterStocks) /\ evaluated = 0)

\* C15: when the evaluation on some record returns an error or a value that
\* is not a boolean, Filter.Apply panics and returns nothing, not even the
\* records that passed before.
C15_FailureReturnsNothing ==
    (fpc = "done"
       /\ \E i \in 1 .. Len(filterStocks) :
            filterStocks[i].Eval \in {"error", "nonbool"})
        => filtered = Panicked

\* C15 witness: the first record passed, the second evaluated to a value
\* that is not a boolean, and Apply panicked.
C15_Witness ==
    /\ fpc = "done" /\ Len(filterStocks) >= 2
    /\ filterStocks[1].Eval = "true" /\ filterStocks[2].Eval = "nonbool"
    /\ filtered.panicked /\ evaluated = 2

\* The tags of the vocabulary that stand for a color.
ColorTagNames == {TagBase, TagHighlight, TagMarket}

\* C22: colors do not nest: opening a color tag makes Foreground exactly
\* that tag's color, dropping the color and the bold, underline and reverse
\* bits it had; closing a color tag, or </>, makes Foreground exactly the
\* default color, whatever it was.
C22_ColorsReplace ==
    [][TagStep =>
         /\ \A name \in ColorTagNames :
              /\ markup.tags[name] < AttrBold
              /\ str' = OpenTag(name) => markup'.Foreground = markup.tags[name]
              /\ str' = CloseTag(name) => markup'.Foreground = ColorDefault
         /\ str' = CloseAll => markup'.Foreground = ColorDefault
      ]_vars

\* C22 witness: bold and underline were set, then <highlight>, configured
\* green, left plain green.
C22_Witness ==
    /\ mpc = "tags"
    /\ markup.tags[TagHighlight] = ColorGreen
    /\ applied = <<OpenTag(TagB), OpenTag(TagU), OpenTag(TagHighlight)>>
    /\ markup.Foreground = ColorGreen

\* C23: Tokenize returns the literal runs and the tags in the order of the
\* input; the first and the last token are never empty, and an empty token
\* stands only between two tags that are adjacent in the input.
C23_TokensInOrderNoEmptyEnds ==
    mpc = "tokenized" =>
        /\ Concat(tokens) = str
        /\ tokens # <<>> => (Head(tokens) # <<>> /\ Last(tokens) # <<>>)
        /\ \A i \in 1 .. Len(tokens) :
             tokens[i] = <<>> =>
                 /\ 1 < i /\ i < Len(tokens)
                 /\ tokens[i - 1] \in KnownTagStrings
                 /\ tokens[i + 1] \in KnownTagStrings

\* C23 witness: "<b><u>OK" gives <b>, the empty run between the two tags,
\* <u> and OK.
C23_Witness ==
    /\ mpc = "tokenized"
    /\ tokens = <<OpenTag(TagB), <<>>, OpenTag(TagU), <<"O", "K">>>>

-----------------------------------------------------------------------------
(* Properties of the quotes *)

FetchFailures == {"httpError", "readError", "badBody"}

\* C16: when Fetch fails (the request fails, the body cannot be read or
\* cannot be parsed) Stocks keeps its value and errors is set to a message,
\* so Ok() is false; when a Fetch succeeds errors is cleared.
C16_FetchFailureRecorded ==
    [][/\ (fetched'.ran /\ fetched'.outcome \in FetchFailures) =>
            (quotes'.Stocks = quotes.Stocks /\ ~Ok(quotes'))
       /\ (fetched'.ran /\ fetched'.outcome = "body") => Ok(quotes')
      ]_vars

\* C17: after a successful fetch the number of records in Stocks is the
\* number of tracked symbols.
C17_OneRecordPerTicker ==
    (fetched.ran /\ fetched.outcome = "body")
        => Len(quotes.Stocks.list) = Len(tickers)

\* C21: AddTickers and RemoveTickers set Stocks to nil exactly when the
\* profile operation returned no error and a count above 0, and then the
\* next Fetch runs even with the market closed as long as a symbol is
\* tracked; otherwise Stocks is left as it was.  The error slot is never
\* touched.
C21_TickerChangeForcesFetch ==
    [][changed'.op # "none" =>
         /\ quotes'.Stocks = IF ~changed'.err /\ changed'.count > 0
                             THEN NilStocks
                             ELSE quotes.Stocks
         /\ quotes'.errors = quotes.errors
         /\ (~changed'.err /\ changed'.count > 0 /\ Len(tickers') > 0)
                => isReady(quotes', tickers', TRUE)
      ]_vars

\* C21 witness: with the market closed, a symbol was added without error
\* and Stocks is nil, so the next Fetch is due.
C21_Witness ==
    /\ changed.op = "AddTickers" /\ changed.count > 0 /\ ~changed.err
    /\ isClosed /\ quotes.Stocks.nil
    /\ isReady(quotes, tickers, isClosed)

\* Fetch has nothing to do: no symbol is tracked, or Stocks is there and the
\* market is closed.
NothingToFetch == Len(tickers) = 0 \/ (~quotes.Stocks.nil /\ isClosed)

\* C25: a Fetch called when no symbol is tracked, or when Stocks is non-nil
\* and the market is closed, makes no request and leaves Stocks and the
\* error slot as they were; a recorded error is not cleared.
C25_FetchNotReadyIsNoOp ==
    [][(fetched'.outcome # "none" /\ NothingToFetch)
          => (quotes' = quotes /\ ~fetched'.ran)]_vars

\* C25 witness: an error was recorded while the market was open, the market
\* closed, and the Fetch after that left the error and Stocks in place.
C25_Witness ==
    /\ fetched.outcome # "none" /\ ~fetched.ran
    /\ Len(tickers) > 0 /\ isClosed
    /\ ~quotes.Stocks.nil /\ ~Ok(quotes)

====
